---- MODULE Spec2Model ----
(***************************************************************************)
(* Model of vbr_mcp.py: the session builder get_vbr_session and the three  *)
(* tool operations list_vbr_repositories, get_repository_details and       *)
(* list_backup_jobs, each probing an ordered list of candidate endpoints.  *)
(*                                                                         *)
(* The backend is the environment: every session.post / session.get call   *)
(* either raises (a transport error) or yields a response with a status    *)
(* and a body text, after requests has followed the redirects the backend  *)
(* answered with.  One step of the model is the code running from one      *)
(* session.post / session.get call to the next.                            *)
(***************************************************************************)
EXTENDS Integers, Sequences, FiniteSets, TLC

VARIABLES
    VBR_USERNAME,   \* os.getenv('VBR_USERNAME'), read once at import
    VBR_PASSWORD,   \* os.getenv('VBR_PASSWORD'), read once at import
    pc,             \* "idle": no tool is running; "probe": inside a tool's for loop
    op,             \* the tool that is running or ran last
    arg,            \* its argument (id / repository_id), None when it has none
    session,        \* the requests.Session object of the running / last invocation
    idx,            \* 1-based position of the for loop in the endpoint list
    log,            \* the HTTP requests sent by the running / last invocation, in order
    tokenResp,      \* the backend's answers to session.post in this invocation (NoExchange if not called)
    resps,          \* the backend's answers to each session.get of this invocation, in order
    outcome,        \* "none" before the first call, "running" inside one, then "returned" or "raised"
    result,         \* the string the last invocation returned
    calls,          \* number of tool invocations started so far
    prevAuthorized  \* whether the session of the previous invocation had an Authorization header

vars == <<VBR_USERNAME, VBR_PASSWORD, pc, op, arg, session, idx, log, tokenResp,
          resps, outcome, result, calls, prevAuthorized>>

-----------------------------------------------------------------------------
(* Bounds of the model *)

MaxCalls == 2
\* longest chain of redirects the backend answers one call with (requests
\* gives up with TooManyRedirects after 30)
MaxHops == 1
\* number of invocations in the runs in which logging calls may raise
MaxFaultyCalls == 1

\* Optional Python strings: None is the empty tuple, a str s is <<s>>.
None == <<>>
Str(s) == <<s>>

\* The environment the process starts in: the two variables unset, empty or set.
Credentials == {<<None, Str("secret")>>, <<Str("admin"), Str("")>>, <<Str("admin"), Str("secret")>>}
RepositoryIds == {Str("r1")}
RepositoryFilters == {None, Str(""), Str("r1")}
ExceptionTexts == {"boom"}

\* The logging calls of a tool invocation, by their place in the code.  A
\* fault set names the calls that raise if the step executes them; in the
\* fault-free runs it is empty.
CallFaultPoints ==
    {"enter_info",       \* logger.info, first statement of the tool, before its try
     "session_info",     \* logger.info, first statement of get_vbr_session
     "creds_warning",    \* logger.warning when a credential is missing
     "auth_info",        \* logger.info after the Authorization header is set
     "auth_error",       \* logger.error in the except clause of get_vbr_session
     "handler_error"}    \* logger.error in the outer except clause of the tool
LoopFaultPoints ==
    {"trying_info",      \* logger.info at the top of the loop body, outside the inner try
     "found_info",       \* logger.info after a 200 whose body was parsed
     "status_warning",   \* logger.warning for a status other than 200
     "endpoint_warning", \* logger.warning in the inner except clause
     "exhausted_error",  \* logger.error after the loop
     "handler_error"}
NoFaults == {}

\* What one request produced: the connection failed (exc = TRUE), or the backend
\* answered with a status, a body text and possibly a Location header.
TransportError == [exc |-> TRUE, status |-> 0, body |-> "", location |-> ""]
NoResponse == [exc |-> FALSE, status |-> 0, body |-> "", location |-> ""]
Response(s, b) == [exc |-> FALSE, status |-> s, body |-> b, location |-> ""]
Redirect(s, target) == [exc |-> FALSE, status |-> s, body |-> "", location |-> target]

\* The backend's answers to one session.post / session.get call: the redirects
\* that requests follows, then the answer the call returns (or raises).
Exchange(hops, final) == [hops |-> hops, final |-> final]
NoExchange == Exchange(<<>>, NoResponse)
RedirectChains == {[i \in 1..n |-> Redirect(302, "/login")] : n \in 1..MaxHops}

\* Body texts the backend may send with a 200: an array, an object, null, and
\* a text that is not JSON.
Bodies == {"[{\"id\":\"r1\"}]", "{\"id\":\"r1\"}", "null", "<html>"}
CandidateResponses ==
    {TransportError, Response(404, "<html>"), Response(201, "[{\"id\":\"r1\"}]")}
        \cup {Response(200, b) : b \in Bodies}
CandidateExchanges ==
    {Exchange(<<>>, f) : f \in CandidateResponses}
        \cup {Exchange(h, Response(200, "{\"id\":\"r1\"}")) : h \in RedirectChains}

\* What the token endpoint may answer.
TokenResponses ==
    {TransportError,
     Response(200, "{\"access_token\":\"t1\"}"), Response(200, "{\"access_token\":\"t2\"}"),
     Response(200, "{\"error\":\"invalid_grant\"}"), Response(200, "<html>"),
     Response(101, "{\"access_token\":\"t1\"}"), Response(302, "{\"access_token\":\"t1\"}"),
     Response(401, "{\"access_token\":\"t1\"}")}
TokenExchanges ==
    {Exchange(<<>>, f) : f \in TokenResponses}
        \cup {Exchange(h, Response(401, "<html>")) : h \in RedirectChains}

-----------------------------------------------------------------------------
(* JSON values, response.json() and json.dumps(_, indent=2) *)

JNull == [t |-> "null", v |-> 0]
JNum(n) == [t |-> "num", v |-> n]
JStr(s) == [t |-> "str", v |-> s]
JArr(items) == [t |-> "arr", v |-> items]
JObj(members) == [t |-> "obj", v |-> members]
JSONDecodeError == [t |-> "error", v |-> 0]

\* response.json() on the body texts of the model.
JsonLoads(text) ==
    CASE text = "[{\"id\":\"r1\"}]" -> JArr(<< JObj(<< <<"id", JStr("r1")>> >>) >>)
      [] text = "{\"id\":\"r1\"}" -> JObj(<< <<"id", JStr("r1")>> >>)
      [] text = "5" -> JNum(5)
      [] text = "null" -> JNull
      [] text = "{\"access_token\":\"t1\"}" -> JObj(<< <<"access_token", JStr("t1")>> >>)
      [] text = "{\"access_token\":\"t2\"}" -> JObj(<< <<"access_token", JStr("t2")>> >>)
      [] text = "{\"error\":\"invalid_grant\"}" -> JObj(<< <<"error", JStr("invalid_grant")>> >>)
      [] OTHER -> JSONDecodeError

RECURSIVE Spaces(_)
Spaces(n) == IF n = 0 THEN "" ELSE "  " \o Spaces(n - 1)

RECURSIVE Dumps(_, _), DumpItems(_, _, _), DumpMembers(_, _, _)
\* json.dumps(v, indent=2), v printed at nesting depth lvl
Dumps(v, lvl) ==
    CASE v.t = "null" -> "null"
      [] v.t = "num" -> ToString(v.v)
      [] v.t = "str" -> "\"" \o v.v \o "\""
      [] v.t = "arr" ->
            IF Len(v.v) = 0 THEN "[]"
            ELSE "[\n" \o DumpItems(v.v, lvl + 1, 1) \o "\n" \o Spaces(lvl) \o "]"
      [] v.t = "obj" ->
            IF Len(v.v) = 0 THEN "{}"
            ELSE "{\n" \o DumpMembers(v.v, lvl + 1, 1) \o "\n" \o Spaces(lvl) \o "}"
DumpItems(items, lvl, i) ==
    Spaces(lvl) \o Dumps(items[i], lvl)
        \o (IF i < Len(items) THEN ",\n" \o DumpItems(items, lvl, i + 1) ELSE "")
DumpMembers(members, lvl, i) ==
    Spaces(lvl) \o "\"" \o members[i][1] \o "\": " \o Dumps(members[i][2], lvl)
        \o (IF i < Len(members) THEN ",\n" \o DumpMembers(members, lvl, i + 1) ELSE "")

\* Python's len() is defined on lists, dicts and strings; it raises TypeError
\* on int and None.
HasLen(v) == v.t \in {"arr", "obj", "str"}

-----------------------------------------------------------------------------
(* Module constants *)

VBR_API_URL == "https://10.1.1.1:9419"
HTTP_OK == 200
ApiVersionHeader == <<"x-api-version", "1.2-rev0">>

\* Python truthiness of an optional string
Truthy(x) == x # None /\ x[1] # ""


-----------------------------------------------------------------------------
(* HTTP calls *)

\* requests merges the session's default headers with the headers of the
\* call; a header given in the call replaces the session's header of that name.
MergeHeaders(sessionHeaders, callHeaders) ==
    callHeaders \cup {h \in sessionHeaders : \A c \in callHeaders : c[1] # h[1]}

\* A request as sent; redirect tells the requests the code asked for (FALSE)
\* from those requests sends on its own to follow a redirect (TRUE).
Request(method, url, headers, params, data) ==
    [method |-> method, url |-> url, headers |-> headers, params |-> params, data |-> data,
     redirect |-> FALSE]

\* requests follows a response that has a Location header and one of these statuses
IsRedirect(resp) == ~resp.exc /\ resp.location # "" /\ resp.status \in {301, 302, 303, 307, 308}

\* SessionRedirectMixin.resolve_redirects: the request sent after the redirect
\* resp answered the request r.  The target (a path here, so the same host)
\* replaces the URL and its query; 303 and 302 turn the method into GET, 301
\* turns POST into GET; unless the status is 307 or 308 the body and the
\* Content-Type header are dropped.  The other headers, Authorization
\* included (same host), are sent again.
FollowUp(r, resp) ==
    [method |-> IF resp.status \in {302, 303} \/ (resp.status = 301 /\ r.method = "POST")
                THEN "GET" ELSE r.method,
     url |-> VBR_API_URL \o resp.location,
     headers |-> IF resp.status \in {307, 308} THEN r.headers
                 ELSE {h \in r.headers : h[1] # "Content-Type"},
     params |-> <<>>,
     data |-> IF resp.status \in {307, 308} THEN r.data ELSE <<>>,
     redirect |-> TRUE]

RECURSIVE Sent(_, _)
\* The requests one call puts on the wire: the request r itself, then one
\* follow-up per redirect answered.
Sent(r, hops) ==
    IF hops = <<>> \/ ~IsRedirect(hops[1]) THEN <<r>>
    ELSE <<r>> \o Sent(FollowUp(r, hops[1]), Tail(hops))

-----------------------------------------------------------------------------
(* get_vbr_session *)

\* before the first invocation there is no session object
NoSession == [verify |-> TRUE, headers |-> {}]

\* mutant: the session object of the previous invocation is used again
RequestsSessionReused == session
\* requests.Session(): certificate validation on, no Authorization header
RequestsSession == [verify |-> TRUE, headers |-> {}]

\* mutant: only the username is tested
CredentialsMissingUserOnly == ~Truthy(VBR_USERNAME)
\* if not VBR_USERNAME or not VBR_PASSWORD
CredentialsMissing == ~Truthy(VBR_USERNAME) \/ ~Truthy(VBR_PASSWORD)

\* session.post(auth_url, headers=headers, data=auth_data)
AuthRequest(s) ==
    Request("POST", VBR_API_URL \o "/api/oauth2/token",
            MergeHeaders(s.headers,
                         {ApiVersionHeader,
                          <<"Content-Type", "application/x-www-form-urlencoded">>}),
            <<>>,
            << <<"grant_type", "password">>,
               <<"username", VBR_USERNAME[1]>>,
               <<"password", VBR_PASSWORD[1]>> >>)

\* mutant: every status outside 2xx raises
RaiseForStatusNon2xx(status) == status < 200 \/ status >= 300
\* response.raise_for_status(): HTTPError for 4xx and 5xx only
RaiseForStatus(status) == status >= 400 /\ status < 600

\* token_data = response.json(); token_data['access_token']
\* None stands for the exception (JSONDecodeError, KeyError, TypeError).
AccessToken(text) ==
    LET v == JsonLoads(text) IN
    IF v.t = "obj" /\ \E i \in 1..Len(v.v) : v.v[i][1] = "access_token"
    THEN LET i == CHOOSE j \in 1..Len(v.v) : v.v[j][1] = "access_token"
         IN  Str(v.v[i][2].v)
    ELSE None

\* session.headers.update({"Authorization": ...})
SetAuthorization(s, value) ==
    [s EXCEPT !.headers = {h \in @ : h[1] # "Authorization"} \cup {<<"Authorization", value>>}]

\* mutant: the header is attached whether or not a token was obtained
AuthenticateAlwaysBearer(s, tr) ==
    IF ~tr.exc /\ ~RaiseForStatus(tr.status) /\ AccessToken(tr.body) # None
    THEN SetAuthorization(s, "Bearer " \o AccessToken(tr.body)[1])
    ELSE SetAuthorization(s, "Bearer None")
\* the try block of get_vbr_session after the POST: any exception leaves the
\* session as it was
Authenticate(s, tr) ==
    IF tr.exc \/ RaiseForStatus(tr.status) \/ AccessToken(tr.body) = None
    THEN s
    ELSE SetAuthorization(s, "Bearer " \o AccessToken(tr.body)[1])

\* get_vbr_session(), tr being the backend's answers to session.post if it is
\* called and F the logging calls that raise.  raised: an exception leaves the
\* function (it has no handler around lines 37-44, and none inside its except
\* clause).  An exception inside its try block, the one of logger.info after
\* the header was set included, is caught by its except clause.
get_vbr_session(tr, F) ==
    LET s == [RequestsSession EXCEPT !.verify = FALSE] IN
    IF "session_info" \in F
    THEN [raised |-> TRUE, session |-> NoSession, requests |-> <<>>, tokenResp |-> NoExchange]
    ELSE IF CredentialsMissing
    THEN [raised |-> "creds_warning" \in F, session |-> s, requests |-> <<>>,
          tokenResp |-> NoExchange]
    ELSE LET caught == \/ tr.final.exc
                       \/ RaiseForStatus(tr.final.status)
                       \/ AccessToken(tr.final.body) = None
                       \/ "auth_info" \in F
         IN  [raised |-> caught /\ "auth_error" \in F,
              session |-> Authenticate(s, tr.final),
              requests |-> Sent(AuthRequest(s), tr.hops),
              tokenResp |-> tr]

-----------------------------------------------------------------------------
(* The endpoint lists, parameters and messages of the three tools *)

repository_endpoints ==
    <<"/api/v1/backupInfrastructure/repositories", "/api/v1/repositories", "/api/repositories">>

details_endpoints(id) ==
    <<"/api/v1/backupInfrastructure/repositories/" \o id,
      "/api/v1/repositories/" \o id,
      "/api/repositories/" \o id>>

job_endpoints ==
    <<"/api/v1/jobs", "/api/v1/backupInfrastructure/jobs", "/api/jobs">>

\* mutant: the parameter is set for every value but None
JobParamsNotNone(repository_id) ==
    IF repository_id # None THEN << <<"repositoryId", repository_id[1]>> >> ELSE <<>>
\* params = {}; if repository_id: params['repositoryId'] = repository_id
JobParams(repository_id) ==
    IF Truthy(repository_id) THEN << <<"repositoryId", repository_id[1]>> >> ELSE <<>>

repositories_error_msg == "No valid repository endpoint found"

\* mutant: the id is left out of the message
details_error_msg_no_id(id) == "No valid repository details endpoint found"
details_error_msg(id) == "No valid repository details endpoint found for ID " \o id

jobs_error_msg == "No valid jobs endpoint found"

\* an exception no except clause encloses: it leaves the tool and reaches the
\* caller, nothing is returned
Uncaught(e) == [outcome |-> "raised", result |-> ""]

\* the except Exception clause around the body of each tool, when its own
\* logger.error call completes
OuterExcept(o, e) ==
    [outcome |-> "returned",
     result |-> (CASE o = "list_vbr_repositories" -> "Error listing repositories: "
                   [] o = "get_repository_details" -> "Error getting repository details: "
                   [] o = "list_backup_jobs" -> "Error listing backup jobs: ") \o e]

\* session.get(url, headers=headers, params=params)
GetRequest(s, endpoint, params) ==
    Request("GET", VBR_API_URL \o endpoint, MergeHeaders(s.headers, {ApiVersionHeader}),
            params, <<>>)

\* the outer except clause as a whole: error_msg is built, logger.error is
\* called (and may raise), error_msg is returned
OuterHandler(o, e, F) ==
    IF "handler_error" \in F THEN Uncaught(e) ELSE OuterExcept(o, e)

\* The inner try statement of the loop body, given what session.get produced
\* and the logging calls F that raise.
\* countsLen: the success log line calls len() on the parsed body.
\* Every exception in the try block (from session.get, response.json(), len()
\* or a logging call) is caught by the inner except clause, which logs and
\* continues with the next endpoint; an exception of that logging call leaves
\* the loop ("raise").
Attempt(resp, countsLen, F) ==
    LET v == JsonLoads(resp.body)
        caught ==
            \/ resp.exc
            \/ /\ ~resp.exc /\ resp.status = HTTP_OK
               /\ (v.t = "error" \/ (countsLen /\ ~HasLen(v)) \/ "found_info" \in F)
            \/ /\ ~resp.exc /\ resp.status # HTTP_OK
               /\ "status_warning" \in F
    IN  IF caught
        THEN [kind |-> IF "endpoint_warning" \in F THEN "raise" ELSE "continue", text |-> ""]
        ELSE IF resp.status = HTTP_OK
        THEN [kind |-> "return", text |-> Dumps(v, 0)]
        ELSE [kind |-> "continue", text |-> ""]

-----------------------------------------------------------------------------
(* Actions *)

Init ==
    /\ \E c \in Credentials : VBR_USERNAME = c[1] /\ VBR_PASSWORD = c[2]
    /\ pc = "idle"
    /\ op = "none"
    /\ arg = None
    /\ session = NoSession
    /\ idx = 1
    /\ log = <<>>
    /\ tokenResp = NoExchange
    /\ resps = <<>>
    /\ outcome = "none"
    /\ result = ""
    /\ calls = 0
    /\ prevAuthorized = FALSE

\* A tool is called: the code runs up to the for loop (get_vbr_session
\* included), F being the logging calls that raise on the way.  The first
\* logger.info stands before the try block: its exception reaches the caller
\* before a session is built.  An exception that leaves get_vbr_session is
\* inside the try block and reaches the outer except clause.
Enter(o, a, tr, F) ==
    /\ pc = "idle"
    /\ calls < MaxCalls
    /\ op' = o
    /\ arg' = a
    /\ idx' = 1
    /\ resps' = <<>>
    /\ calls' = calls + 1
    /\ prevAuthorized' = (\E h \in session.headers : h[1] = "Authorization")
    /\ \E e \in ExceptionTexts :
         IF "enter_info" \in F
         THEN /\ session' = NoSession
              /\ log' = <<>>
              /\ tokenResp' = NoExchange
              /\ outcome' = Uncaught(e).outcome
              /\ result' = Uncaught(e).result
              /\ pc' = "idle"
         ELSE \E g \in {get_vbr_session(tr, F)} :
              /\ session' = g.session
              /\ log' = g.requests
              /\ tokenResp' = g.tokenResp
              /\ IF g.raised
                 THEN \E h \in {OuterHandler(o, e, F)} :
                      /\ outcome' = h.outcome
                      /\ result' = h.result
                      /\ pc' = "idle"
                 ELSE /\ outcome' = "running"
                      /\ result' = ""
                      /\ pc' = "probe"
    /\ UNCHANGED <<VBR_USERNAME, VBR_PASSWORD>>

\* One iteration of the for loop, F being the logging calls that raise in it;
\* after the last endpoint has failed the code falls out of the loop and
\* returns the error message.  The logger.info at the top of the loop body
\* and the logger.error after the loop are inside the outer try block only.
Iterate(endpoints, params, countsLen, error_msg, ex, F) ==
    /\ pc = "probe"
    /\ idx <= Len(endpoints)
    /\ \E e \in ExceptionTexts :
         IF "trying_info" \in F
         THEN /\ outcome' = OuterHandler(op, e, F).outcome
              /\ result' = OuterHandler(op, e, F).result
              /\ pc' = "idle"
              /\ UNCHANGED <<log, resps, idx>>
         ELSE /\ log' = log \o Sent(GetRequest(session, endpoints[idx], params), ex.hops)
              /\ resps' = Append(resps, ex)
              /\ \E a \in {Attempt(ex.final, countsLen, F)} :
                   IF a.kind = "return"
                   THEN /\ result' = a.text
                        /\ outcome' = "returned"
                        /\ pc' = "idle"
                        /\ idx' = idx
                   ELSE IF a.kind = "raise"
                   THEN /\ outcome' = OuterHandler(op, e, F).outcome
                        /\ result' = OuterHandler(op, e, F).result
                        /\ pc' = "idle"
                        /\ idx' = idx
                   ELSE IF idx < Len(endpoints)
                   THEN /\ idx' = idx + 1
                        /\ UNCHANGED <<result, outcome, pc>>
                   ELSE IF "exhausted_error" \in F
                   THEN /\ outcome' = OuterHandler(op, e, F).outcome
                        /\ result' = OuterHandler(op, e, F).result
                        /\ pc' = "idle"
                        /\ idx' = idx
                   ELSE /\ result' = error_msg
                        /\ outcome' = "returned"
                        /\ pc' = "idle"
                        /\ idx' = idx
    /\ UNCHANGED <<VBR_USERNAME, VBR_PASSWORD, op, arg, session, tokenResp, calls, prevAuthorized>>

\* the calls a client may make: tool and argument
ToolCalls ==
    {<<"list_vbr_repositories", None>>}
        \cup {<<"get_repository_details", id>> : id \in RepositoryIds}
        \cup {<<"list_backup_jobs", repository_id>> : repository_id \in RepositoryFilters}

\* one iteration of the loop of the tool o called with a
ToolLoop(o, a, ex, F) ==
    CASE o = "list_vbr_repositories" ->
            Iterate(repository_endpoints, <<>>, TRUE, repositories_error_msg, ex, F)
      [] o = "get_repository_details" ->
            Iterate(details_endpoints(a[1]), <<>>, FALSE, details_error_msg(a[1]), ex, F)
      [] o = "list_backup_jobs" ->
            Iterate(job_endpoints, JobParams(a), TRUE, jobs_error_msg, ex, F)

list_vbr_repositories_call ==
    /\ pc = "idle"
    /\ \E tr \in TokenExchanges : Enter("list_vbr_repositories", None, tr, NoFaults)

list_vbr_repositories_loop ==
    /\ op = "list_vbr_repositories"
    /\ \E ex \in CandidateExchanges : ToolLoop(op, arg, ex, NoFaults)

get_repository_details_call ==
    /\ pc = "idle"
    /\ \E id \in RepositoryIds, tr \in TokenExchanges :
         Enter("get_repository_details", id, tr, NoFaults)

get_repository_details_loop ==
    /\ op = "get_repository_details"
    /\ \E ex \in CandidateExchanges : ToolLoop(op, arg, ex, NoFaults)

list_backup_jobs_call ==
    /\ pc = "idle"
    /\ \E repository_id \in RepositoryFilters, tr \in TokenExchanges :
         Enter("list_backup_jobs", repository_id, tr, NoFaults)

list_backup_jobs_loop ==
    /\ op = "list_backup_jobs"
    /\ \E ex \in CandidateExchanges : ToolLoop(op, arg, ex, NoFaults)

\* A tool is called and any of the logging calls on the way to its loop may raise.
FaultyCall ==
    /\ pc = "idle"
    /\ calls < MaxFaultyCalls
    /\ \E c \in ToolCalls, tr \in TokenExchanges, F \in SUBSET CallFaultPoints :
         Enter(c[1], c[2], tr, F)

\* An iteration of the running tool's loop in which any of the logging calls
\* may raise.
FaultyLoop ==
    /\ pc = "probe"
    /\ \E ex \in CandidateExchanges, F \in SUBSET LoopFaultPoints :
         ToolLoop(op, arg, ex, F)

Next ==
    \/ list_vbr_repositories_call
    \/ list_vbr_repositories_loop
    \/ get_repository_details_call
    \/ get_repository_details_loop
    \/ list_backup_jobs_call
    \/ list_backup_jobs_loop

Spec == Init /\ [][Next]_vars

NextFault ==
    \/ FaultyCall
    \/ FaultyLoop

SpecFault == Init /\ [][NextFault]_vars

-----------------------------------------------------------------------------
(* Vocabulary of the properties *)

\* the requests the code asked for, and those sent to follow a redirect
CodeRequests == SelectSeq(log, LAMBDA r : ~r.redirect)
FollowUps == SelectSeq(log, LAMBDA r : r.redirect)
\* the GETs to candidate endpoints, and all GETs and POSTs sent
CandidateGets == SelectSeq(log, LAMBDA r : r.method = "GET" /\ ~r.redirect)
Gets == SelectSeq(log, LAMBDA r : r.method = "GET")
Posts == SelectSeq(log, LAMBDA r : r.method = "POST")
AuthorizationOf(headers) == {h[2] : h \in {x \in headers : x[1] = "Authorization"}}
Finished == pc = "idle" /\ calls > 0
\* the response session.get returned has a status other than 200, or the call raised
Failed(ex) == ex.final.exc \/ ex.final.status # 200
Status200(ex) == ~ex.final.exc /\ ex.final.status = 200
\* the candidate endpoint itself answered 200
Answered200(ex) == ex.hops = <<>> /\ Status200(ex)

\* What Python prints for json.dumps(json.loads(text), indent=2), per body text.
ValidJsonBodies == {"[{\"id\":\"r1\"}]", "{\"id\":\"r1\"}", "null"}
ExpectedIndented(text) ==
    CASE text = "[{\"id\":\"r1\"}]" -> "[\n  {\n    \"id\": \"r1\"\n  }\n]"
      [] text = "{\"id\":\"r1\"}" -> "{\n  \"id\": \"r1\"\n}"
      [] text = "null" -> "null"

\* The candidate URLs of each tool, written out.
ExpectedUrls ==
    CASE op = "list_vbr_repositories" ->
            <<"https://10.1.1.1:9419/api/v1/backupInfrastructure/repositories",
              "https://10.1.1.1:9419/api/v1/repositories",
              "https://10.1.1.1:9419/api/repositories">>
      [] op = "get_repository_details" ->
            <<"https://10.1.1.1:9419/api/v1/backupInfrastructure/repositories/" \o arg[1],
              "https://10.1.1.1:9419/api/v1/repositories/" \o arg[1],
              "https://10.1.1.1:9419/api/repositories/" \o arg[1]>>
      [] op = "list_backup_jobs" ->
            <<"https://10.1.1.1:9419/api/v1/jobs",
              "https://10.1.1.1:9419/api/v1/backupInfrastructure/jobs",
              "https://10.1.1.1:9419/api/jobs">>
      [] OTHER -> <<>>

\* The sequence gets is the first candidates of the running tool, in list order.
InListOrder(gets) ==
    /\ Len(gets) <= Len(ExpectedUrls)
    /\ \A i \in 1..Len(gets) : gets[i].url = ExpectedUrls[i]

-----------------------------------------------------------------------------
(* C1 *)

\* C1: in each of the three tools, when the first candidate answers 200 with
\* a valid JSON body (array, object or a scalar such as null), the tool
\* returns that JSON indented and issues no GET to the second or third
\* candidate.
C1_FirstCandidate200Returned ==
    (calls > 0 /\ Len(resps) >= 1 /\ Answered200(resps[1])
        /\ resps[1].final.body \in ValidJsonBodies)
    => /\ Finished
       /\ outcome = "returned"
       /\ result = ExpectedIndented(resps[1].final.body)
       /\ Len(CandidateGets) = 1

-----------------------------------------------------------------------------
(* C2 *)

\* C2: first success wins in list order: when every candidate before position
\* k failed (non-200 status or transport error) and candidate k answers 200
\* with a JSON body, the result is candidate k's body, the candidates up to k
\* were requested in list order and none after k is requested.
C2_FirstSuccessWins ==
    \A k \in 1..Len(resps) :
        ((\A j \in 1..(k - 1) : Failed(resps[j]))
            /\ Answered200(resps[k]) /\ resps[k].final.body \in ValidJsonBodies)
        => /\ Finished
           /\ outcome = "returned"
           /\ result = ExpectedIndented(resps[k].final.body)
           /\ Len(CandidateGets) = k
           /\ InListOrder(CandidateGets)

-----------------------------------------------------------------------------
(* C3 *)

ExpectedDiagnostic ==
    CASE op = "list_vbr_repositories" -> "No valid repository endpoint found"
      [] op = "get_repository_details" ->
            "No valid repository details endpoint found for ID " \o arg[1]
      [] op = "list_backup_jobs" -> "No valid jobs endpoint found"

\* C3: when all three candidates failed, in any mix of non-200 response
\* statuses and transport errors, the tool returns (it does not raise) a
\* non-empty text that names the failed operation: repository listing,
\* repository details for the given id, or jobs listing.
C3_ExhaustionReturnsDiagnostic ==
    (Len(resps) = 3 /\ \A j \in 1..3 : Failed(resps[j]))
    => /\ Finished
       /\ outcome = "returned"
       /\ result # ""
       /\ result = ExpectedDiagnostic

\* a details lookup whose candidates failed with a mix of status and transport error
C3_Witness ==
    /\ Finished
    /\ op = "get_repository_details"
    /\ Len(resps) = 3
    /\ resps[1].final.exc /\ resps[2].final = Response(404, "<html>") /\ resps[3].final.exc
    /\ result = "No valid repository details endpoint found for ID r1"

-----------------------------------------------------------------------------
(* C4 *)

\* C4: no invocation ends by raising to the caller: whatever the
\* authentication outcome, the candidates' responses and the unexpected
\* exceptions inside the tool (a logging call that raises, wherever it
\* stands), a running invocation is inside its
\* loop and a finished one has returned a string.
C4_NeverRaises ==
    /\ outcome # "raised"
    /\ Finished => outcome = "returned"
    /\ pc = "probe" => idx \in 1..3 /\ outcome = "running"

-----------------------------------------------------------------------------
(* C5 *)

\* The Authorization value a token body yields, per body text; "" for none.
ExpectedBearer(text) ==
    CASE text = "{\"access_token\":\"t1\"}" -> "Bearer t1"
      [] text = "{\"access_token\":\"t2\"}" -> "Bearer t2"
      [] OTHER -> ""

CredentialsUnset ==
    VBR_USERNAME \in {None, Str("")} \/ VBR_PASSWORD \in {None, Str("")}

TokenRequestFailed ==
    \/ tokenResp.final.exc
    \/ tokenResp.final.status >= 400
    \/ ExpectedBearer(tokenResp.final.body) = ""

\* C5: when the username or password is missing, or the token request fails,
\* the tool still issues the GET to its first candidate and goes on through
\* the fallback chain as usual, and no request of the invocation carries an
\* Authorization header.
C5_ProbingWithoutBearer ==
    (calls > 0 /\ (CredentialsUnset \/ TokenRequestFailed))
    => /\ \A i \in 1..Len(log) : AuthorizationOf(log[i].headers) = {}
       /\ InListOrder(CandidateGets)
       /\ Len(CandidateGets) = Len(resps)
       /\ pc = "probe" => Len(CandidateGets) = idx - 1
       /\ Finished => Len(CandidateGets) >= 1
       /\ (Finished /\ \A j \in 1..Len(resps) : Failed(resps[j])) => Len(CandidateGets) = 3

\* the token endpoint redirected to a page that answered 401; the first
\* candidate failed, the second succeeded
C5_Witness ==
    /\ Finished
    /\ tokenResp = Exchange(<<Redirect(302, "/login")>>, Response(401, "<html>"))
    /\ Len(log) = 4
    /\ log[2].method = "GET" /\ log[2].url = "https://10.1.1.1:9419/login"
    /\ Len(CandidateGets) = 2
    /\ resps[1].final.status = 404 /\ Answered200(resps[2])
    /\ result = "{\n  \"id\": \"r1\"\n}"
    /\ \A i \in 1..2 : AuthorizationOf(CandidateGets[i].headers) = {}

-----------------------------------------------------------------------------
(* C6 *)

ParamsOf(r) == {r.params[i] : i \in 1..Len(r.params)}

\* C6 as stated: for every filter value passed to list_backup_jobs, the empty
\* string included, every candidate GET carries repositoryId equal to it.
C6_FilterOnEveryGet ==
    (op = "list_backup_jobs" /\ arg # None)
    => \A i \in 1..Len(CandidateGets) :
         <<"repositoryId", arg[1]>> \in ParamsOf(CandidateGets[i])

\* C6 amended: for every non-empty filter value every candidate GET of
\* list_backup_jobs, failed or not, carries repositoryId equal to it and no
\* other parameter; with the empty string, as with no filter, no GET carries
\* a repositoryId parameter.
C6_NonEmptyFilterOnEveryGet ==
    op = "list_backup_jobs"
    => \A i \in 1..Len(CandidateGets) :
         ParamsOf(CandidateGets[i]) = IF arg \in {None, Str("")} THEN {}
                                      ELSE {<<"repositoryId", arg[1]>>}

\* a filtered listing whose first two candidates failed
C6_Witness ==
    /\ op = "list_backup_jobs"
    /\ arg = Str("r1")
    /\ Len(CandidateGets) = 3
    /\ resps[1].final.exc /\ resps[2].final.status = 404 /\ Answered200(resps[3])
    /\ \A i \in 1..3 : CandidateGets[i].params = << <<"repositoryId", "r1">> >>

-----------------------------------------------------------------------------
(* C7 *)

\* C7: as soon as a candidate's response has status 200 the probe stops:
\* whatever the body, no later candidate is requested and the invocation
\* returns; a body that is JSON is returned indented.
C7_Status200StopsProbe ==
    \A k \in 1..Len(resps) :
        Status200(resps[k])
        => /\ Len(resps) = k
           /\ Len(CandidateGets) = k
           /\ Finished
           /\ outcome = "returned"
           /\ resps[k].final.body \in ValidJsonBodies
                => result = ExpectedIndented(resps[k].final.body)

-----------------------------------------------------------------------------
(* C8 *)

\* C8 as stated: the session carries an Authorization header exactly when the
\* token request got a 2xx response with an access_token, and then it is
\* Bearer followed by that token.
C8_BearerIffTokenResponse2xx ==
    calls > 0
    => AuthorizationOf(session.headers) =
         IF /\ ~CredentialsUnset
            /\ ~tokenResp.final.exc
            /\ tokenResp.final.status >= 200 /\ tokenResp.final.status <= 299
            /\ ExpectedBearer(tokenResp.final.body) # ""
         THEN {ExpectedBearer(tokenResp.final.body)}
         ELSE {}

\* C8 amended: the session carries an Authorization header exactly when both
\* credentials are set, session.post raised no network error, the status of
\* the response it returned (the last one, when redirects were followed) is
\* not 4xx or 5xx (a 1xx or 3xx status passes raise_for_status like a 2xx)
\* and its body is a JSON object with an access_token; the header is then
\* Bearer followed by that token.
C8_BearerIffNot4xx5xx ==
    calls > 0
    => AuthorizationOf(session.headers) =
         IF /\ ~CredentialsUnset
            /\ ~tokenResp.final.exc
            /\ (tokenResp.final.status < 400 \/ tokenResp.final.status > 599)
            /\ ExpectedBearer(tokenResp.final.body) # ""
         THEN {ExpectedBearer(tokenResp.final.body)}
         ELSE {}

\* a session authenticated by a 200 token response
C8_Witness ==
    /\ calls > 0
    /\ tokenResp = Exchange(<<>>, Response(200, "{\"access_token\":\"t2\"}"))
    /\ session.headers = {<<"Authorization", "Bearer t2">>}
    /\ session.verify = FALSE

-----------------------------------------------------------------------------
(* C9 *)

RECURSIVE HopsIn(_)
\* number of redirects answered to the session.get calls in exs
HopsIn(exs) == IF exs = <<>> THEN 0 ELSE Len(Head(exs).hops) + HopsIn(Tail(exs))

\* C9 as stated: the requests of one invocation are one token POST when both
\* credentials are set and none otherwise, issued first, then at most one GET
\* per candidate in list order and nothing else: at most three GETs.
C9_NoRetries ==
    calls > 0
    => /\ Len(Posts) = (IF CredentialsUnset THEN 0 ELSE 1)
       /\ Len(Posts) = 1 => log[1].method = "POST"
       /\ InListOrder(Gets)
       /\ Len(Gets) <= 3
       /\ Len(Gets) = Len(resps)

\* C9 amended: the code makes one session.post call when both credentials are
\* set and none otherwise, before any candidate GET, then at most one
\* session.get call per candidate in list order, hence at most three candidate
\* GETs and no call repeated after a failure; the only other requests sent
\* are the follow-ups of the HTTP library, one per redirect (with a Location
\* header) the backend answered, so more than three GETs may be sent.
C9_NoRetriesBesidesRedirects ==
    calls > 0
    => /\ Len(SelectSeq(CodeRequests, LAMBDA r : r.method = "POST"))
            = (IF CredentialsUnset THEN 0 ELSE 1)
       /\ ~CredentialsUnset => log[1].method = "POST" /\ ~log[1].redirect
       /\ \A i \in 2..Len(CodeRequests) : CodeRequests[i].method = "GET"
       /\ InListOrder(CandidateGets)
       /\ Len(CandidateGets) <= 3
       /\ Len(CandidateGets) = Len(resps)
       /\ \A i, j \in 1..Len(CandidateGets) :
            i # j => CandidateGets[i].url # CandidateGets[j].url
       /\ Len(FollowUps) = Len(tokenResp.hops) + HopsIn(resps)
       /\ Len(log) > 0 => ~log[1].redirect

\* an authenticated invocation that went through all three candidates and
\* followed a redirect of the token endpoint
C9_Witness ==
    /\ Finished
    /\ Len(tokenResp.hops) = 1
    /\ log[1].method = "POST" /\ log[2].redirect /\ log[2].method = "GET"
    /\ Len(CandidateGets) = 3
    /\ Len(Gets) > 3
    /\ \A j \in 1..3 : Failed(resps[j])

-----------------------------------------------------------------------------
(* C10 *)

\* C10: every invocation builds its own session: whatever the session of the
\* previous invocation carried, the session of this invocation carries only
\* the token obtained by this invocation's own token request, the requests of
\* the token exchange carry no Authorization header, every later request
\* carries exactly the Authorization of this invocation's session, and the
\* invocation starts with the same request (the POST if the credentials are
\* set, else the first candidate's GET).
C10_FreshSessionPerInvocation ==
    calls > 0
    => /\ AuthorizationOf(session.headers) \subseteq {ExpectedBearer(tokenResp.final.body)}
       /\ session.verify = FALSE
       /\ LET tokenRequests == IF CredentialsUnset THEN 0 ELSE 1 + Len(tokenResp.hops) IN
          \A i \in 1..Len(log) :
            IF i <= tokenRequests
            THEN AuthorizationOf(log[i].headers) = {}
            ELSE AuthorizationOf(log[i].headers) = AuthorizationOf(session.headers)
       /\ Len(log) >= 1 =>
            IF CredentialsUnset
            THEN log[1].method = "GET" /\ log[1].url = ExpectedUrls[1]
            ELSE log[1].method = "POST"
                 /\ log[1].url = "https://10.1.1.1:9419/api/oauth2/token"

\* a second invocation, unauthenticated, after an authenticated one
C10_Witness ==
    /\ calls = 2
    /\ Finished
    /\ prevAuthorized
    /\ tokenResp.final.status = 401
    /\ Len(CandidateGets) = 1
    /\ AuthorizationOf(CandidateGets[1].headers) = {}
    /\ Answered200(resps[1])

====
